---- MODULE Spec2Model ----
(***************************************************************************)
(* TelArbitrageBot: market loading, symbol reconciliation, concurrent      *)
(* ticker fetching, pairwise arbitrage detection (src/exchange.py) and     *)
(* per-subscriber alert deduplication with periodic reset (src/main.py).   *)
(*                                                                         *)
(* Two specifications share the variables:                                 *)
(*   Spec        the exchange pipeline of src/exchange.py: the concurrent  *)
(*               load tasks, the reconciler, then ticks of concurrent      *)
(*               fetch tasks, the join barrier and detection;              *)
(*   SpecAlerts  the event loop of src/main.py: ticks of                   *)
(*               send_arbitrage_alerts (suspended at each send), the       *)
(*               hourly reset and the subscribe / stop handlers.  The call *)
(*               of find_arbitrage_opportunities is synchronous there, so  *)
(*               a tick sees it as one step over a fetched snapshot.       *)
(***************************************************************************)
EXTENDS Integers, Sequences, FiniteSets, TLC

VARIABLES
    \* ---- src/exchange.py: load_exchanges / load_markets
    phase,              \* position of the orchestrating thread
    load_pc,            \* per requested exchange: position of its load task
    load_result,        \* per requested exchange: what init_and_load returned
    load_ok,            \* per requested exchange: whether its load succeeded (history)
    exchange_objects,   \* name -> ExchangeHandle, the loaded exchanges only
    common_symbols,     \* name -> sorted sequence of common symbols
    \* ---- src/exchange.py: get_all_tickers / fetch_exchange_tickers
    batch_size,         \* the batch_size argument of this tick
    market,             \* index of the price table the exchanges serve this tick
    fetch_pc,           \* per exchange: position of its fetch task
    idx,                \* per exchange: loop variable i of the batch loop
    elapsed,            \* per exchange: time.monotonic() - start_time
    tickers,            \* per exchange: the task's local `tickers` dict
    calls,              \* per exchange: log of the fetch_tickers calls made (history)
    exit,               \* per exchange: why the fetch task stopped fetching (history)
    inner,              \* per exchange: state of the isolated pool's call
    all_tickers,        \* the TickerSnapshot being assembled (dict)
    ticker_order,       \* insertion order of all_tickers' keys
    opportunities,      \* result of find_arbitrage_opportunities
    \* ---- src/main.py
    subscribed_users,   \* global set of subscriber ids
    sent_opportunities, \* global dict user_id -> set of opportunity keys
    tick_pc,            \* position of the send_arbitrage_alerts coroutine
    todo,               \* users of list(subscribed_users) not yet visited
    user_id,            \* the loop variable of the tick (a 0/1-length seq)
    new_opps_for_user,  \* the outgoing batch of the current user
    \* ---- history (not program state)
    alerted,            \* user -> key triple -> times batched since last reset
    delivered,          \* user -> key triples in a message whose send succeeded
    failed              \* users whose send raised during the current tick

vars == <<phase, load_pc, load_result, load_ok, exchange_objects, common_symbols,
          batch_size, market, fetch_pc, idx, elapsed, tickers, calls, exit,
          inner, all_tickers, ticker_order, opportunities,
          subscribed_users, sent_opportunities, tick_pc, todo, user_id,
          new_opps_for_user, alerted, delivered, failed>>

loadVars  == <<load_pc, load_result, load_ok, exchange_objects, common_symbols>>
fetchVars == <<batch_size, market, fetch_pc, idx, elapsed, tickers, calls,
               exit, inner, all_tickers, ticker_order>>
mainVars  == <<subscribed_users, sent_opportunities, tick_pc, todo, user_id,
               new_opps_for_user, alerted, delivered, failed>>

-----------------------------------------------------------------------------
(* Bounds of the model *)

\* batch_size is drawn from 1..MaxBatchSize (the source's default is 500)
MaxBatchSize == 2
\* a network call takes 0 or SlowCall seconds
SlowCall == 6
\* subscriber ids are 1..MaxUsers
MaxUsers == 2

(* Program constants *)

\* fetch_exchange_tickers(..., timeout=10)
timeout == 10
\* sleep(1) after a failed batch
backoff == 1
\* threshold=0.005 passed by send_arbitrage_alerts, as ThresholdNum/ThresholdDen
ThresholdNum == 5
ThresholdDen == 1000

-----------------------------------------------------------------------------
(* The exchanges and what they serve (the black-box connectivity layer) *)

\* exchange_names (three of the source's four)
exchange_names == <<"binance", "kraken", "kucoin">>
Exchanges == {exchange_names[n] : n \in 1..Len(exchange_names)}

\* every symbol of the model, in ascending lexicographic order
SymbolOrder == <<"BNB/USDT", "BTC/USDT", "BTC/USDT:USDT", "ETH/USDT", "XRP/USDT">>
Symbols == {SymbolOrder[n] : n \in 1..Len(SymbolOrder)}
Rank(s) == CHOOSE n \in 1..Len(SymbolOrder) : SymbolOrder[n] = s

\* exchange.markets after load_markets(): symbol -> market metadata.
\* A market dict may lack 'type' or 'spot' (market.get returns None then).
Mkt(ty, sp) == [type |-> ty, spot |-> sp]
MarketsOf(name) ==
    CASE name = "binance" ->
           ("BTC/USDT" :> Mkt("spot", TRUE)) @@ ("ETH/USDT" :> Mkt("spot", TRUE))
        @@ ("XRP/USDT" :> [type |-> "spot"]) @@ ("BNB/USDT" :> Mkt("spot", TRUE))
        @@ ("BTC/USDT:USDT" :> Mkt("swap", FALSE))
      [] name = "kraken" ->
           ("BTC/USDT" :> Mkt("spot", TRUE)) @@ ("ETH/USDT" :> [spot |-> TRUE])
        @@ ("BTC/USDT:USDT" :> Mkt("future", FALSE))
      [] OTHER ->
           ("BTC/USDT" :> Mkt("spot", TRUE)) @@ ("XRP/USDT" :> Mkt("margin", TRUE))
        @@ ("BTC/USDT:USDT" :> Mkt("swap", FALSE))

\* A ticker: a dict that may lack 'bid' or 'ask' (None in the source).
Quote(b, a) == [bid |-> b, ask |-> a]

\* The price tables an exchange may serve during one tick: table -> exchange ->
\* symbol -> ticker.  Table 1 holds the spec's example (bid 100 / ask 101
\* against bid 95 / ask 96), a direction whose diff is exactly the threshold
\* (ETH: buy at 200, sell at 201) and one just above it (XRP: buy at 199,
\* sell at 200); table 2 has the same directions at other prices, a ticker
\* without ask and one with a zero bid; table 3 is flat.
PriceTables == <<
    [ binance |-> ("BTC/USDT" :> Quote(100, 101)) @@ ("ETH/USDT" :> Quote(199, 200))
               @@ ("XRP/USDT" :> Quote(200, 201)) @@ ("BNB/USDT" :> Quote(30, 31))
               @@ ("BTC/USDT:USDT" :> Quote(100, 101)),
      kraken  |-> ("BTC/USDT" :> Quote(95, 96)) @@ ("ETH/USDT" :> Quote(201, 202))
               @@ ("BTC/USDT:USDT" :> Quote(90, 91)),
      kucoin  |-> ("BTC/USDT" :> Quote(100, 101)) @@ ("XRP/USDT" :> Quote(198, 199))
               @@ ("BTC/USDT:USDT" :> Quote(100, 101)) ],
    [ binance |-> ("BTC/USDT" :> Quote(110, 111)) @@ ("ETH/USDT" :> Quote(0, 201))
               @@ ("XRP/USDT" :> Quote(50, 51)) @@ ("BNB/USDT" :> Quote(30, 31)),
      kraken  |-> ("BTC/USDT" :> Quote(95, 96)) @@ ("ETH/USDT" :> Quote(300, 301)),
      kucoin  |-> ("BTC/USDT" :> [bid |-> 120]) @@ ("XRP/USDT" :> Quote(60, 61))
               @@ ("BTC/USDT:USDT" :> Quote(100, 101)) ],
    [ binance |-> ("BTC/USDT" :> Quote(100, 101)) @@ ("ETH/USDT" :> Quote(200, 201))
               @@ ("XRP/USDT" :> Quote(50, 51)),
      kraken  |-> ("BTC/USDT" :> Quote(100, 101)) @@ ("ETH/USDT" :> Quote(200, 201)),
      kucoin  |-> ("BTC/USDT" :> Quote(100, 101)) @@ ("XRP/USDT" :> Quote(50, 51)) ]
  >>

\* the empty dict
EmptyMap == [s \in {} |-> 0]

\* d restricted to the keys in S
Restrict(d, S) == [s \in (DOMAIN d) \cap S |-> d[s]]

\* dict.update: the entries of `new` replace those of `old`
Update(old, new) == new @@ old

\* the set of elements of a sequence
Range(seq) == {seq[n] : n \in 1..Len(seq)}

-----------------------------------------------------------------------------
(* Market Loader and Symbol Reconciler: pure parts *)

\* dict.get(key): <<>> stands for None, <<v>> for the value v
Get(d, k) == IF k \in DOMAIN d THEN <<d[k]>> ELSE <<>>

\* init_and_load: market.get('type') == 'spot' or market.get('spot') is True
IsSpot(mkt) == Get(mkt, "type") = <<"spot">> \/ Get(mkt, "spot") = <<TRUE>>

SpotSymbols(markets) == {s \in DOMAIN markets : IsSpot(markets[s])}

\* sorted(S), ascending
RECURSIVE Sorted(_)
Sorted(S) ==
    IF S = {} THEN <<>>
    ELSE LET m == CHOOSE s \in S : \A u \in S : Rank(s) <= Rank(u)
         IN  <<m>> \o Sorted(S \ {m})

\* a union that does not leave out the exchange itself
OtherSymbolsAll(objs, name) ==
    UNION {objs[other].spot_symbols : other \in DOMAIN objs}

\* the union of the other exchanges' spot symbols (the inner loop)
OtherSymbols(objs, name) ==
    UNION {objs[other].spot_symbols : other \in (DOMAIN objs) \ {name}}

\* a reconciler that keeps every spot symbol of each exchange
get_all_spot_symbols(objs) ==
    [name \in DOMAIN objs |-> Sorted(objs[name].spot_symbols)]

get_common_symbols(objs) ==
    [name \in DOMAIN objs |->
        Sorted(objs[name].spot_symbols \cap OtherSymbols(objs, name))]

-----------------------------------------------------------------------------
(* Arbitrage Detector: the pair enumeration of find_arbitrage_opportunities *)

\* `not x` for a price that may be None: None and 0 are falsy
Falsy(o) == o = <<>> \/ o[1] = 0

\* `not ticker`: None and the empty dict are falsy
NoTicker(o) == o = <<>> \/ DOMAIN o[1] = {}

\* a comparison that also admits diff = threshold
OverThresholdInclusive(num, den) == num * ThresholdDen >= ThresholdNum * den

\* diff > threshold for diff = num / den, den > 0
OverThreshold(num, den) == num * ThresholdDen > ThresholdNum * den

\* an opportunity dict; profit_pct = diff * 100 is kept as the exact fraction
Opportunity(symbol, buy_ex, buy_price, sell_ex, sell_price) ==
    [symbol |-> symbol,
     buy_exchange |-> buy_ex, buy_price |-> buy_price,
     sell_exchange |-> sell_ex, sell_price |-> sell_price,
     profit_pct |-> [num |-> (sell_price - buy_price) * 100, den |-> buy_price]]

\* a body that looks at one direction only: buy on ex2, sell on ex1
EvalSymbolOneWay(tk, ex1, ex2, symbol) ==
    LET ticker1 == Get(tk[ex1], symbol)
        ticker2 == Get(tk[ex2], symbol)
    IN
    IF NoTicker(ticker1) \/ NoTicker(ticker2) THEN <<>>
    ELSE
      LET bid1 == Get(ticker1[1], "bid")
          ask1 == Get(ticker1[1], "ask")
          bid2 == Get(ticker2[1], "bid")
          ask2 == Get(ticker2[1], "ask")
      IN
      IF Falsy(bid1) \/ Falsy(ask1) \/ Falsy(bid2) \/ Falsy(ask2) THEN <<>>
      ELSE IF bid1[1] <= 0 \/ ask1[1] <= 0 \/ bid2[1] <= 0 \/ ask2[1] <= 0 THEN <<>>
      ELSE IF OverThreshold(bid1[1] - ask2[1], ask2[1])
           THEN <<Opportunity(symbol, ex2, ask2[1], ex1, bid1[1])>> ELSE <<>>

\* the body of the symbol loop after checked.add: the opportunities appended
EvalSymbol(tk, ex1, ex2, symbol) ==
    LET ticker1 == Get(tk[ex1], symbol)
        ticker2 == Get(tk[ex2], symbol)
    IN
    IF NoTicker(ticker1) \/ NoTicker(ticker2) THEN <<>>
    ELSE
      LET bid1 == Get(ticker1[1], "bid")
          ask1 == Get(ticker1[1], "ask")
          bid2 == Get(ticker2[1], "bid")
          ask2 == Get(ticker2[1], "ask")
      IN
      IF Falsy(bid1) \/ Falsy(ask1) \/ Falsy(bid2) \/ Falsy(ask2) THEN <<>>
      ELSE IF bid1[1] <= 0 \/ ask1[1] <= 0 \/ bid2[1] <= 0 \/ ask2[1] <= 0 THEN <<>>
      ELSE
           (IF OverThreshold(bid1[1] - ask2[1], ask2[1])
            THEN <<Opportunity(symbol, ex2, ask2[1], ex1, bid1[1])>> ELSE <<>>)
        \o (IF OverThreshold(bid2[1] - ask1[1], ask1[1])
            THEN <<Opportunity(symbol, ex1, ask1[1], ex2, bid2[1])>> ELSE <<>>)

\* the elements of set S in the order the set is iterated
SetIter(S, order) == SelectSeq(order, LAMBDA s : s \in S)

\* for symbol in common_syms; acc = [checked, evaluated, opportunities], where
\* evaluated logs the triples that passed the `checked` test (history)
RECURSIVE SymbolLoop(_, _, _, _, _)
SymbolLoop(tk, ex1, ex2, syms, acc) ==
    IF syms = <<>> THEN acc
    ELSE LET symbol == Head(syms) IN
         IF <<ex1, ex2, symbol>> \in acc.checked \/ <<ex2, ex1, symbol>> \in acc.checked
         THEN SymbolLoop(tk, ex1, ex2, Tail(syms), acc)
         ELSE SymbolLoop(tk, ex1, ex2, Tail(syms),
                [checked |-> acc.checked \cup {<<ex1, ex2, symbol>>},
                 evaluated |-> Append(acc.evaluated, <<ex1, ex2, symbol>>),
                 opportunities |-> acc.opportunities \o EvalSymbol(tk, ex1, ex2, symbol)])

\* an inner loop over the symbols both exchanges returned a ticker for
RECURSIVE InnerLoopTickerSymbols(_, _, _, _, _, _, _)
InnerLoopTickerSymbols(tk, exchanges, cs, order, i, j, acc) ==
    IF j > Len(exchanges) THEN acc
    ELSE LET ex1 == exchanges[i]
             ex2 == exchanges[j]
             common_syms == (DOMAIN tk[ex1]) \cap (DOMAIN tk[ex2])
         IN  InnerLoopTickerSymbols(tk, exchanges, cs, order, i, j + 1,
                       SymbolLoop(tk, ex1, ex2, SetIter(common_syms, order), acc))

\* for j in range(i + 1, len(exchanges))
RECURSIVE InnerLoop(_, _, _, _, _, _, _)
InnerLoop(tk, exchanges, cs, order, i, j, acc) ==
    IF j > Len(exchanges) THEN acc
    ELSE LET ex1 == exchanges[i]
             ex2 == exchanges[j]
             common_syms == Range(cs[ex1]) \cap Range(cs[ex2])
         IN  InnerLoop(tk, exchanges, cs, order, i, j + 1,
                       SymbolLoop(tk, ex1, ex2, SetIter(common_syms, order), acc))

\* an outer loop whose inner loop starts at the first exchange again
RECURSIVE OuterLoopAllPairs(_, _, _, _, _, _)
OuterLoopAllPairs(tk, exchanges, cs, order, i, acc) ==
    IF i > Len(exchanges) THEN acc
    ELSE OuterLoopAllPairs(tk, exchanges, cs, order, i + 1,
                           InnerLoop(tk, exchanges, cs, order, i, 1, acc))

\* for i in range(len(exchanges))
RECURSIVE OuterLoop(_, _, _, _, _, _)
OuterLoop(tk, exchanges, cs, order, i, acc) ==
    IF i > Len(exchanges) THEN acc
    ELSE OuterLoop(tk, exchanges, cs, order, i + 1,
                   InnerLoop(tk, exchanges, cs, order, i, i + 1, acc))

\* the loops of find_arbitrage_opportunities after get_all_tickers: tk is the
\* snapshot, exchanges = list(tickers.keys()), order the iteration order of
\* Python sets
PairLoops(tk, exchanges, cs, order) ==
    OuterLoop(tk, exchanges, cs, order, 1,
              [checked |-> {}, evaluated |-> <<>>, opportunities |-> <<>>])

\* return opportunities
PairEnumeration(tk, exchanges, cs, order) ==
    PairLoops(tk, exchanges, cs, order).opportunities

\* the iteration orders of a set of symbols the model tries
SetOrders == {SymbolOrder,
              [n \in 1..Len(SymbolOrder) |-> SymbolOrder[Len(SymbolOrder) + 1 - n]]}

-----------------------------------------------------------------------------
(* Alert Deduplicator: pure parts *)

\* a key that also carries the sell price
opportunity_key_priced(opp) ==
    opp.symbol \o ":" \o opp.buy_exchange \o ":" \o opp.sell_exchange
               \o ":" \o ToString(opp.sell_price)

\* opportunity_key: f"{symbol}:{buy_exchange}:{sell_exchange}"
opportunity_key(opp) ==
    opp.symbol \o ":" \o opp.buy_exchange \o ":" \o opp.sell_exchange

\* the spec's OpportunityKey of an opportunity, as a triple (history only)
KeyTriple(opp) == <<opp.symbol, opp.buy_exchange, opp.sell_exchange>>

\* the loop `for opp in opportunities` of one user: acc = [sent, new] holds
\* sent_opportunities[user_id] and new_opps_for_user
RECURSIVE FilterNew(_, _)
FilterNew(opps, acc) ==
    IF opps = <<>> THEN acc
    ELSE LET opp == Head(opps)
             key == opportunity_key(opp)
         IN  IF key \notin acc.sent
             THEN FilterNew(Tail(opps), [sent |-> acc.sent \cup {key},
                                         new  |-> Append(acc.new, opp)])
             ELSE FilterNew(Tail(opps), acc)

\* a reset that walks the current subscribers instead of the dict
ClearSubscribedOnly(sent) ==
    [u \in DOMAIN sent |-> IF u \in subscribed_users THEN {} ELSE sent[u]]

\* clear_sent_opportunities: every user's set is cleared, the keys stay
ClearAll(sent) == [u \in DOMAIN sent |-> {}]

-----------------------------------------------------------------------------
(* State after load_markets(exchange_names) when every load succeeded *)

Handle(name, has) ==
    [spot_symbols |-> SpotSymbols(MarketsOf(name)), has_fetchTickers |-> has]

AllLoaded == [name \in Exchanges |-> Handle(name, TRUE)]

Users == 1..MaxUsers

\* history helpers
Count(u, k) == IF k \in DOMAIN alerted[u] THEN alerted[u][k] ELSE 0
Bump(a, ks) == [k \in (DOMAIN a) \cup ks |->
                   IF k \in ks
                   THEN (IF k \in DOMAIN a /\ a[k] >= 1 THEN 2 ELSE 1)
                   ELSE a[k]]
\* Bump counts one inclusion per key of a batch; a batch that carries a key
\* twice counts it twice
RECURSIVE BumpAll(_, _)
BumpAll(a, opps) ==
    IF opps = <<>> THEN a
    ELSE BumpAll(Bump(a, {KeyTriple(Head(opps))}), Tail(opps))

KeysOf(opps) == {KeyTriple(opps[n]) : n \in 1..Len(opps)}

\* the fetch-side variables while no tick is fetching
FetchIdle ==
    /\ batch_size = 1
    /\ market = 1
    /\ fetch_pc = [e \in Exchanges |-> "idle"]
    /\ idx = [e \in Exchanges |-> 0]
    /\ elapsed = [e \in Exchanges |-> 0]
    /\ tickers = [e \in Exchanges |-> EmptyMap]
    /\ calls = [e \in Exchanges |-> <<>>]
    /\ exit = [e \in Exchanges |-> "none"]
    /\ inner = [e \in Exchanges |-> "none"]
    /\ all_tickers = EmptyMap
    /\ ticker_order = <<>>
    /\ opportunities = <<>>

MainIdle ==
    /\ sent_opportunities = EmptyMap
    /\ tick_pc = "idle"
    /\ todo = {}
    /\ user_id = <<>>
    /\ new_opps_for_user = <<>>
    /\ alerted = [u \in Users |-> EmptyMap]
    /\ delivered = [u \in Users |-> {}]
    /\ failed = {}

-----------------------------------------------------------------------------
(* src/main.py: the event loop *)

\* module level: load_subscribers() returns whatever the file holds;
\* load_markets has run (data_ready = True) before any job is scheduled
InitAlerts ==
    /\ phase = "ready"
    /\ load_pc = [e \in Exchanges |-> "collected"]
    /\ load_result = [e \in Exchanges |-> <<AllLoaded[e]>>]
    /\ load_ok = [e \in Exchanges |-> TRUE]
    /\ exchange_objects = AllLoaded
    /\ common_symbols = get_common_symbols(AllLoaded)
    /\ FetchIdle
    /\ MainIdle
    /\ subscribed_users \in SUBSET Users

\* another coroutine runs only while the tick is not running or is suspended
\* at `await context.bot.send_message`
LoopFree == tick_pc \in {"idle", "send"}

\* the fetch outcomes a tick of this specification draws from: a price table
\* and the exchanges that answered, in completion order
AlertSnapshots == {<<1, <<"kraken", "binance">>>>,
                   <<2, <<"binance", "kraken", "kucoin">>>>,
                   <<3, <<"kucoin", "kraken", "binance">>>>}

\* a TickerSnapshot get_all_tickers can return: the exchanges that answered,
\* in completion order, each with the tickers of its common symbols
SnapshotOf(m, exs) ==
    [e \in Range(exs) |-> Restrict(PriceTables[m][e], Range(common_symbols[e]))]

\* send_arbitrage_alerts up to the user loop: the synchronous call of
\* find_arbitrage_opportunities, the early return, list(subscribed_users)
TickStart ==
    /\ tick_pc = "idle"
    /\ \E snap \in AlertSnapshots, order \in SetOrders :
         LET tk == SnapshotOf(snap[1], snap[2])
             found == PairEnumeration(tk, snap[2], common_symbols, order)
         IN  /\ opportunities' = found
             /\ IF found = <<>>
                THEN /\ tick_pc' = "idle"
                     /\ todo' = {}
                ELSE /\ tick_pc' = "loop"
                     /\ todo' = subscribed_users
    /\ user_id' = <<>>
    /\ new_opps_for_user' = <<>>
    /\ UNCHANGED <<phase, loadVars, fetchVars, subscribed_users,
                   sent_opportunities, alerted, delivered, failed>>

\* one iteration of `for user_id in list(subscribed_users)` up to the send
NextUser(u) ==
    /\ tick_pc = "loop"
    /\ u \in todo
    /\ LET known == IF u \in DOMAIN sent_opportunities
                    THEN sent_opportunities[u] ELSE {}
           res == FilterNew(opportunities, [sent |-> known, new |-> <<>>])
       IN  /\ sent_opportunities' =
                 (u :> res.sent) @@ sent_opportunities
           /\ new_opps_for_user' = res.new
           /\ alerted' = [alerted EXCEPT ![u] = BumpAll(@, res.new)]
           /\ tick_pc' = IF res.new # <<>> THEN "send" ELSE "loop"
    /\ todo' = todo \ {u}
    /\ user_id' = <<u>>
    /\ UNCHANGED <<phase, loadVars, fetchVars, opportunities, subscribed_users,
                   delivered, failed>>

\* await context.bot.send_message returns
SendOk ==
    /\ tick_pc = "send"
    /\ delivered' = [delivered EXCEPT ![user_id[1]] = @ \cup KeysOf(new_opps_for_user)]
    /\ tick_pc' = "loop"
    /\ UNCHANGED <<phase, loadVars, fetchVars, opportunities, subscribed_users,
                   sent_opportunities, todo, user_id, new_opps_for_user,
                   alerted, failed>>

\* a send whose exception leaves the coroutine: the tick is over
SendFailAborts ==
    /\ tick_pc = "send"
    /\ tick_pc' = "idle"
    /\ todo' = {}
    /\ opportunities' = <<>>
    /\ user_id' = <<>>
    /\ new_opps_for_user' = <<>>
    /\ failed' = {}
    /\ UNCHANGED <<phase, loadVars, fetchVars, subscribed_users,
                   sent_opportunities, alerted, delivered>>

\* await context.bot.send_message raises: logged, the loop goes on
SendFail ==
    /\ tick_pc = "send"
    /\ tick_pc' = "loop"
    /\ failed' = failed \cup {user_id[1]}
    /\ UNCHANGED <<phase, loadVars, fetchVars, opportunities, subscribed_users,
                   sent_opportunities, todo, user_id, new_opps_for_user,
                   alerted, delivered>>

\* the user loop is exhausted: the coroutine returns and its locals die
TickEnd ==
    /\ tick_pc = "loop"
    /\ todo = {}
    /\ tick_pc' = "idle"
    /\ opportunities' = <<>>
    /\ user_id' = <<>>
    /\ new_opps_for_user' = <<>>
    /\ failed' = {}
    /\ UNCHANGED <<phase, loadVars, fetchVars, subscribed_users,
                   sent_opportunities, todo, alerted, delivered>>

\* the hourly job
clear_sent_opportunities ==
    /\ LoopFree
    /\ sent_opportunities' = ClearAll(sent_opportunities)
    /\ alerted' = [u \in Users |-> EmptyMap]
    /\ UNCHANGED <<phase, loadVars, fetchVars, opportunities, subscribed_users,
                   tick_pc, todo, user_id, new_opps_for_user, delivered,
                   failed>>

\* handle_button_press with subscribe_button / resubscribe_button
handle_button_press(u) ==
    /\ LoopFree
    /\ u \notin subscribed_users
    /\ subscribed_users' = subscribed_users \cup {u}
    /\ UNCHANGED <<phase, loadVars, fetchVars, opportunities, sent_opportunities,
                   tick_pc, todo, user_id, new_opps_for_user, alerted,
                   delivered, failed>>

\* the /stop command
stop(u) ==
    /\ LoopFree
    /\ u \in subscribed_users
    /\ subscribed_users' = subscribed_users \ {u}
    /\ UNCHANGED <<phase, loadVars, fetchVars, opportunities, sent_opportunities,
                   tick_pc, todo, user_id, new_opps_for_user, alerted,
                   delivered, failed>>

NextAlerts ==
    \/ TickStart
    \/ \E u \in Users : NextUser(u)
    \/ SendOk
    \/ SendFail
    \/ TickEnd
    \/ clear_sent_opportunities
    \/ \E u \in Users : handle_button_press(u)
    \/ \E u \in Users : stop(u)

SpecAlerts == InitAlerts /\ [][NextAlerts]_vars

-----------------------------------------------------------------------------
(* src/exchange.py: exceptions, time and the connectivity layer's answers *)

\* the exceptions a capability call may raise: TypeError, any other Exception
Errors == {"type_error", "error"}

\* except clauses that let an exception of the nested full fetch escape
HandlerNarrow(site, exc) ==
    CASE site = "load"     -> "none"
      [] site = "batch"    -> IF exc = "type_error" THEN "fallback" ELSE "continue"
      [] site = "fallback" -> IF exc = "type_error" THEN "keep" ELSE "propagate"
      [] site = "isolated" -> "keep"
      [] OTHER             -> "propagate"

\* except clauses in which a failed batch ends the batch loop
HandlerAbort(site, exc) ==
    CASE site = "load"     -> "none"
      [] site = "batch"    -> IF exc = "type_error" THEN "fallback" ELSE "break"
      [] site = "fallback" -> "keep"
      [] site = "isolated" -> "keep"
      [] OTHER             -> "propagate"

\* what the except clauses around a capability call do with an exception:
\*   load      `except Exception` of init_and_load: return (name, None)
\*   batch     `except TypeError`: full fetch once; `except Exception`: sleep
\*             and go on with the next batch
\*   fallback  `except Exception` of the nested try: keep `tickers`
\*   isolated  `except TimeoutError` / `except Exception`: keep `tickers`
Handler(site, exc) ==
    CASE site = "load"     -> "none"
      [] site = "batch"    -> IF exc = "type_error" THEN "fallback" ELSE "continue"
      [] site = "fallback" -> "keep"
      [] site = "isolated" -> "keep"
      [] OTHER             -> "propagate"

\* durations of a network call that returns
CallTimes == {0, SlowCall}

\* elapsed time after d more seconds; beyond the timeout only "over" matters
After(t, d) == IF t + d > timeout THEN timeout + 1 ELSE t + d

\* a check that never sees the budget exceeded
TimedOutNever(t) == FALSE

\* time.monotonic() - start_time > timeout
TimedOut(t) == t > timeout

\* FetchTickers(name, symbols): the tickers the exchange has for the symbols
FetchFiltered(name, batch) == Restrict(PriceTables[market][name], Range(batch))

\* FetchTickers(name): every ticker of the exchange
FetchAll(name) == PriceTables[market][name]

\* if name == 'kucoin'
IsolatedPath(name) == name = "kucoin"

\* symbols[i:i + batch_size]
Batch(symbols, i) ==
    SubSeq(symbols, i + 1, IF i + batch_size > Len(symbols) THEN Len(symbols)
                           ELSE i + batch_size)

Call(kind, i, at, res) == [kind |-> kind, i |-> i, at |-> at, res |-> res]

\* the last entry of a log with its result filled in
Resolve(log, res) == [log EXCEPT ![Len(log)].res = res]

-----------------------------------------------------------------------------
(* src/exchange.py: load_exchanges and load_markets *)

Init ==
    /\ phase = "loading"
    /\ load_pc = [e \in Exchanges |-> "submitted"]
    /\ load_result = [e \in Exchanges |-> <<>>]
    /\ load_ok = [e \in Exchanges |-> FALSE]
    /\ exchange_objects = EmptyMap
    /\ common_symbols = EmptyMap
    /\ FetchIdle
    /\ MainIdle
    /\ subscribed_users = {}

\* init_and_load(name): the exchange is built and its markets load
LoadOk(e, has) ==
    /\ load_pc[e] = "submitted"
    /\ load_pc' = [load_pc EXCEPT ![e] = "returned"]
    /\ load_result' = [load_result EXCEPT ![e] = <<Handle(e, has)>>]
    /\ load_ok' = [load_ok EXCEPT ![e] = TRUE]
    /\ UNCHANGED <<phase, exchange_objects, common_symbols, fetchVars,
                   opportunities, mainVars>>

\* init_and_load(name): a call inside the try raises
LoadFail(e, exc) ==
    /\ load_pc[e] = "submitted"
    /\ load_pc' = [load_pc EXCEPT ![e] =
                      IF Handler("load", exc) = "propagate" THEN "raised"
                      ELSE "returned"]
    /\ UNCHANGED <<phase, load_result, load_ok, exchange_objects,
                   common_symbols, fetchVars, opportunities, mainVars>>

\* a failed load discards what was loaded before it
StoreOrReset(objs, name, result) ==
    IF result # <<>> THEN (name :> result[1]) @@ objs ELSE EmptyMap

\* if exchange is not None: exchange_objects[name] = exchange
StoreLoaded(objs, name, result) ==
    IF result # <<>> THEN (name :> result[1]) @@ objs ELSE objs

\* one iteration of `for future in as_completed(futures)` of load_exchanges
CollectLoad(e) ==
    /\ phase = "loading"
    /\ load_pc[e] \in {"returned", "raised"}
    /\ load_pc' = [load_pc EXCEPT ![e] = "collected"]
    /\ IF load_pc[e] = "raised"
       THEN /\ phase' = "crashed"
            /\ UNCHANGED exchange_objects
       ELSE /\ exchange_objects' = StoreLoaded(exchange_objects, e, load_result[e])
            /\ UNCHANGED phase
    /\ UNCHANGED <<load_result, load_ok, common_symbols, fetchVars,
                   opportunities, mainVars>>

\* load_markets after load_exchanges returned: get_common_symbols
Reconcile ==
    /\ phase = "loading"
    /\ \A e \in Exchanges : load_pc[e] = "collected"
    /\ common_symbols' = get_common_symbols(exchange_objects)
    /\ phase' = "ready"
    /\ UNCHANGED <<load_pc, load_result, load_ok, exchange_objects, fetchVars,
                   opportunities, mainVars>>

-----------------------------------------------------------------------------
(* src/exchange.py: get_all_tickers, fetch_exchange_tickers, detection *)

Loaded == DOMAIN exchange_objects

\* find_arbitrage_opportunities calls get_all_tickers: one task per exchange
FetchSubmit ==
    /\ phase \in {"ready", "detected"}
    /\ \E bs \in 1..MaxBatchSize, m \in 1..Len(PriceTables) :
          /\ batch_size' = bs
          /\ market' = m
    /\ phase' = "fetching"
    /\ fetch_pc' = [e \in Exchanges |-> IF e \in Loaded THEN "start" ELSE "idle"]
    /\ idx' = [e \in Exchanges |-> 0]
    /\ elapsed' = [e \in Exchanges |-> 0]
    /\ tickers' = [e \in Exchanges |-> EmptyMap]
    /\ calls' = [e \in Exchanges |-> <<>>]
    /\ exit' = [e \in Exchanges |-> "none"]
    /\ inner' = [e \in Exchanges |-> "none"]
    /\ all_tickers' = EmptyMap
    /\ ticker_order' = <<>>
    /\ opportunities' = <<>>
    /\ UNCHANGED <<loadVars, mainVars>>

\* fetch_exchange_tickers up to the batch loop: the fetchTickers check, and
\* for the isolated path the submit of the single call to a pool of its own
FetchStart(e) ==
    /\ fetch_pc[e] = "start"
    /\ IF ~exchange_objects[e].has_fetchTickers
       THEN /\ fetch_pc' = [fetch_pc EXCEPT ![e] = "returned"]
            /\ exit' = [exit EXCEPT ![e] = "unsupported"]
            /\ UNCHANGED <<inner, calls>>
       ELSE IF IsolatedPath(e)
       THEN /\ fetch_pc' = [fetch_pc EXCEPT ![e] = "await_future"]
            /\ inner' = [inner EXCEPT ![e] = "running"]
            /\ calls' = [calls EXCEPT ![e] =
                            Append(@, Call("isolated", 0, elapsed[e], "in_flight"))]
            /\ UNCHANGED exit
       ELSE /\ fetch_pc' = [fetch_pc EXCEPT ![e] = "loop"]
            /\ UNCHANGED <<inner, calls, exit>>
    /\ UNCHANGED <<phase, loadVars, batch_size, market, idx, elapsed, tickers,
                   all_tickers, ticker_order, opportunities, mainVars>>

\* range(0, len(symbols), batch_size) is exhausted: return finish()
LoopDone(e) ==
    /\ fetch_pc[e] = "loop"
    /\ idx[e] >= Len(common_symbols[e])
    /\ fetch_pc' = [fetch_pc EXCEPT ![e] = "returned"]
    /\ exit' = [exit EXCEPT ![e] = "exhausted"]
    /\ UNCHANGED <<phase, loadVars, batch_size, market, idx, elapsed, tickers,
                   calls, inner, all_tickers, ticker_order, opportunities, mainVars>>

\* the check at the head of the loop body finds the budget exceeded: break
LoopTimeout(e) ==
    /\ fetch_pc[e] = "loop"
    /\ idx[e] < Len(common_symbols[e])
    /\ TimedOut(elapsed[e])
    /\ fetch_pc' = [fetch_pc EXCEPT ![e] = "returned"]
    /\ exit' = [exit EXCEPT ![e] = "timeout"]
    /\ UNCHANGED <<phase, loadVars, batch_size, market, idx, elapsed, tickers,
                   calls, inner, all_tickers, ticker_order, opportunities, mainVars>>

\* one iteration: exchange.fetch_tickers(batch) answers, tickers.update(partial)
BatchOk(e, d) ==
    /\ fetch_pc[e] = "loop"
    /\ idx[e] < Len(common_symbols[e])
    /\ ~TimedOut(elapsed[e])
    /\ tickers' = [tickers EXCEPT ![e] =
                      Update(@, FetchFiltered(e, Batch(common_symbols[e], idx[e])))]
    /\ calls' = [calls EXCEPT ![e] = Append(@, Call("batch", idx[e], elapsed[e], "ok"))]
    /\ elapsed' = [elapsed EXCEPT ![e] = After(@, d)]
    /\ idx' = [idx EXCEPT ![e] = @ + batch_size]
    /\ UNCHANGED <<phase, loadVars, batch_size, market, fetch_pc, exit, inner,
                   all_tickers, ticker_order, opportunities, mainVars>>

\* one iteration: exchange.fetch_tickers(batch) raises
BatchRaises(e, exc) ==
    /\ fetch_pc[e] = "loop"
    /\ idx[e] < Len(common_symbols[e])
    /\ ~TimedOut(elapsed[e])
    /\ calls' = [calls EXCEPT ![e] = Append(@, Call("batch", idx[e], elapsed[e], exc))]
    /\ LET h == Handler("batch", exc) IN
       /\ fetch_pc' = [fetch_pc EXCEPT ![e] =
                          CASE h = "continue" -> "loop"
                            [] h = "fallback" -> "fallback"
                            [] h = "propagate" -> "raised"
                            [] OTHER -> "returned"]
       /\ elapsed' = [elapsed EXCEPT ![e] = IF h = "continue" THEN After(@, backoff) ELSE @]
       /\ idx' = [idx EXCEPT ![e] = IF h = "continue" THEN @ + batch_size ELSE @]
       /\ exit' = [exit EXCEPT ![e] = IF h \in {"continue", "fallback"} THEN @ ELSE "error"]
    /\ UNCHANGED <<phase, loadVars, batch_size, market, tickers, inner,
                   all_tickers, ticker_order, opportunities, mainVars>>

\* a full fetch after which the batch loop goes on
AfterFallbackLoop == "loop"

\* the `break` that follows the nested try: return finish()
AfterFallback == "returned"

\* except TypeError: tickers = exchange.fetch_tickers() answers
FallbackOk(e, d) ==
    /\ fetch_pc[e] = "fallback"
    /\ tickers' = [tickers EXCEPT ![e] = FetchAll(e)]
    /\ calls' = [calls EXCEPT ![e] = Append(@, Call("all", idx[e], elapsed[e], "ok"))]
    /\ elapsed' = [elapsed EXCEPT ![e] = After(@, d)]
    /\ fetch_pc' = [fetch_pc EXCEPT ![e] = AfterFallback]
    /\ exit' = [exit EXCEPT ![e] = "fallback"]
    /\ UNCHANGED <<phase, loadVars, batch_size, market, idx, inner,
                   all_tickers, ticker_order, opportunities, mainVars>>

\* except TypeError: tickers = exchange.fetch_tickers() raises
FallbackRaises(e, exc) ==
    /\ fetch_pc[e] = "fallback"
    /\ calls' = [calls EXCEPT ![e] = Append(@, Call("all", idx[e], elapsed[e], exc))]
    /\ fetch_pc' = [fetch_pc EXCEPT ![e] =
                       IF Handler("fallback", exc) = "propagate" THEN "raised"
                       ELSE AfterFallback]
    /\ exit' = [exit EXCEPT ![e] = "fallback"]
    /\ UNCHANGED <<phase, loadVars, batch_size, market, idx, elapsed, tickers,
                   inner, all_tickers, ticker_order, opportunities, mainVars>>

\* isolated path: the call answers within the timeout; the result is cut to
\* the common symbols, the pool shuts down, return finish()
IsolatedOk(e, d) ==
    /\ fetch_pc[e] = "await_future"
    /\ tickers' = [tickers EXCEPT ![e] = Restrict(FetchAll(e), Range(common_symbols[e]))]
    /\ calls' = [calls EXCEPT ![e] = Resolve(@, "ok")]
    /\ elapsed' = [elapsed EXCEPT ![e] = After(@, d)]
    /\ inner' = [inner EXCEPT ![e] = "done"]
    /\ fetch_pc' = [fetch_pc EXCEPT ![e] = "returned"]
    /\ exit' = [exit EXCEPT ![e] = "isolated"]
    /\ UNCHANGED <<phase, loadVars, batch_size, market, idx,
                   all_tickers, ticker_order, opportunities, mainVars>>

\* isolated path: the call raises within the timeout
IsolatedRaises(e, exc) ==
    /\ fetch_pc[e] = "await_future"
    /\ calls' = [calls EXCEPT ![e] = Resolve(@, exc)]
    /\ inner' = [inner EXCEPT ![e] = "done"]
    /\ fetch_pc' = [fetch_pc EXCEPT ![e] =
                       IF Handler("isolated", exc) = "propagate" THEN "raised"
                       ELSE "returned"]
    /\ exit' = [exit EXCEPT ![e] = "isolated"]
    /\ UNCHANGED <<phase, loadVars, batch_size, market, idx, elapsed, tickers,
                   all_tickers, ticker_order, opportunities, mainVars>>

\* isolated path: future.result(timeout=timeout) raises TimeoutError while
\* the call is in flight; control leaves the `with` block, whose __exit__ is
\* pool.shutdown(wait=True)
IsolatedTimeout(e) ==
    /\ fetch_pc[e] = "await_future"
    /\ calls' = [calls EXCEPT ![e] = Resolve(@, "timeout")]
    /\ elapsed' = [elapsed EXCEPT ![e] = timeout]
    /\ fetch_pc' = [fetch_pc EXCEPT ![e] = "pool_shutdown"]
    /\ exit' = [exit EXCEPT ![e] = "timeout"]
    /\ UNCHANGED <<phase, loadVars, batch_size, market, idx, tickers, inner,
                   all_tickers, ticker_order, opportunities, mainVars>>

\* isolated path: the in-flight call ends (its result is dropped), the pool's
\* worker is joined, the TimeoutError reaches its except clause, return finish()
IsolatedJoin(e) ==
    /\ fetch_pc[e] = "pool_shutdown"
    /\ inner[e] = "running"
    /\ inner' = [inner EXCEPT ![e] = "done"]
    /\ elapsed' = [elapsed EXCEPT ![e] = timeout + 1]
    /\ fetch_pc' = [fetch_pc EXCEPT ![e] =
                       IF Handler("isolated", "timeout") = "propagate" THEN "raised"
                       ELSE "returned"]
    /\ UNCHANGED <<phase, loadVars, batch_size, market, idx, tickers, calls,
                   exit, all_tickers, ticker_order, opportunities, mainVars>>

\* a store without the `if tickers` test
StoreAlways(all, name, tk) == (name :> tk) @@ all

\* if tickers: all_tickers[name] = tickers
StoreTickers(all, name, tk) == IF tk # EmptyMap THEN (name :> tk) @@ all ELSE all

\* one iteration of `for future in as_completed(futures)` of get_all_tickers
Collect(e) ==
    /\ phase = "fetching"
    /\ fetch_pc[e] \in {"returned", "raised"}
    /\ fetch_pc' = [fetch_pc EXCEPT ![e] = "collected"]
    /\ IF fetch_pc[e] = "raised"
       THEN /\ phase' = "crashed"
            /\ UNCHANGED <<all_tickers, ticker_order>>
       ELSE /\ all_tickers' = StoreTickers(all_tickers, e, tickers[e])
            /\ ticker_order' = IF tickers[e] # EmptyMap
                               THEN Append(ticker_order, e) ELSE ticker_order
            /\ UNCHANGED phase
    /\ UNCHANGED <<loadVars, batch_size, market, idx, elapsed, tickers, calls,
                   exit, inner, opportunities, mainVars>>

\* a join that is satisfied by the first collected result
AnyCollected == \E e \in Loaded : fetch_pc[e] = "collected"

\* as_completed is exhausted and the executor's `with` block is left
AllCollected == \A e \in Loaded : fetch_pc[e] = "collected"

\* find_arbitrage_opportunities after get_all_tickers returned: the pair
\* enumeration over the assembled snapshot
Detect ==
    /\ phase = "fetching"
    /\ AllCollected
    /\ \E order \in SetOrders :
          opportunities' = PairEnumeration(all_tickers, ticker_order,
                                           common_symbols, order)
    /\ phase' = "detected"
    /\ UNCHANGED <<loadVars, fetchVars, mainVars>>

Next ==
    \/ \E e \in Exchanges, has \in BOOLEAN : LoadOk(e, has)
    \/ \E e \in Exchanges, exc \in Errors : LoadFail(e, exc)
    \/ \E e \in Exchanges : CollectLoad(e)
    \/ Reconcile
    \/ FetchSubmit
    \/ \E e \in Exchanges : FetchStart(e)
    \/ \E e \in Exchanges : LoopDone(e)
    \/ \E e \in Exchanges : LoopTimeout(e)
    \/ \E e \in Exchanges, d \in CallTimes : BatchOk(e, d)
    \/ \E e \in Exchanges, exc \in Errors : BatchRaises(e, exc)
    \/ \E e \in Exchanges, d \in CallTimes : FallbackOk(e, d)
    \/ \E e \in Exchanges, exc \in Errors : FallbackRaises(e, exc)
    \/ \E e \in Exchanges, d \in CallTimes : IsolatedOk(e, d)
    \/ \E e \in Exchanges, exc \in Errors : IsolatedRaises(e, exc)
    \/ \E e \in Exchanges : IsolatedTimeout(e)
    \/ \E e \in Exchanges : IsolatedJoin(e)
    \/ \E e \in Exchanges : Collect(e)
    \/ Detect

Spec == Init /\ [][Next]_vars

-----------------------------------------------------------------------------
(* Properties of the exchange pipeline (Spec) *)

\* the fetch task of e has returned to get_all_tickers
Returned(e) == fetch_pc[e] \in {"returned", "collected"}

\* positions of the log of e that are batch requests with result res
BatchCalls(e, res) ==
    {n \in 1..Len(calls[e]) : calls[e][n].kind = "batch" /\ calls[e][n].res = res}

\* the tickers of the batches of e that succeeded
Accumulated(e) ==
    Restrict(PriceTables[market][e],
             UNION {Range(Batch(common_symbols[e], calls[e][n].i)) :
                    n \in BatchCalls(e, "ok")})

\* the start indices of the batches of e, and those requested so far
BatchStarts(e) == {i \in 0..(Len(common_symbols[e]) - 1) : i % batch_size = 0}
Requested(e) ==
    {calls[e][n].i : n \in {m \in 1..Len(calls[e]) : calls[e][m].kind = "batch"}}

\* C4: when the pair enumeration has started, every fetch task submitted for
\* the tick has returned and been collected, and the snapshot holds exactly
\* the non-empty results: no task is left that could add or change tickers.
C4_DetectionAfterAllFetches ==
    phase = "detected" =>
        /\ \A e \in Loaded : fetch_pc[e] = "collected"
        /\ DOMAIN all_tickers = {e \in Loaded : tickers[e] # EmptyMap}
        /\ \A e \in DOMAIN all_tickers : all_tickers[e] = tickers[e]

\* C4 witness: detection ran over three exchanges of which one gave up on its
\* timeout and another walked all its batches, and found an opportunity.
C4_Witness ==
    /\ phase = "detected"
    /\ Loaded = Exchanges
    /\ opportunities # <<>>
    /\ \E e1, e2 \in Loaded : exit[e1] = "timeout" /\ exit[e2] = "exhausted"

\* C5: when the timeout of the isolated path expires with the call in flight,
\* the fetch task returns without waiting for that call.
C5_TimeoutAbandonsCall ==
    \A e \in Exchanges :
        (IsolatedPath(e) /\ exit[e] = "timeout" /\ inner[e] = "running")
            => Returned(e)

\* C6: no batch request is issued once the elapsed time exceeds the timeout,
\* and a batch loop left on the timeout returns, as a map, the tickers
\* accumulated so far.
C6_TimeoutCheckedBeforeEachBatch ==
    \A e \in Exchanges :
        /\ \A n \in 1..Len(calls[e]) :
              calls[e][n].kind = "batch" => calls[e][n].at <= timeout
        /\ (~IsolatedPath(e) /\ exit[e] = "timeout")
              => /\ Returned(e)
                 /\ Requested(e) = {i \in BatchStarts(e) : i < idx[e]}
                 /\ tickers[e] = Accumulated(e)

\* C6 witness: a batch loop left on the timeout with batches still to fetch
\* and a non-empty partial result.
C6_Witness ==
    \E e \in Exchanges :
        /\ ~IsolatedPath(e)
        /\ exit[e] = "timeout"
        /\ Returned(e)
        /\ idx[e] < Len(common_symbols[e])
        /\ tickers[e] # EmptyMap

\* C7: a batch that fails with a transient error does not abort the fetch.
\* The returned map holds the tickers of every batch that succeeded, before
\* and after the failed one; and unless a batch was rejected as unsupported
\* (which ends batching by the fallback rule), every batch was requested up
\* to the end of the symbols or up to the timeout, and the map is exactly the
\* accumulated tickers.
C7_TransientErrorKeepsFetching ==
    \A e \in Exchanges :
        (Returned(e) /\ BatchCalls(e, "error") # {})
            => /\ \A s \in DOMAIN Accumulated(e) :
                     s \in DOMAIN tickers[e] /\ tickers[e][s] = Accumulated(e)[s]
               /\ BatchCalls(e, "type_error") = {}
                     => /\ Requested(e) = {i \in BatchStarts(e) : i < idx[e]}
                        /\ idx[e] < Len(common_symbols[e]) => exit[e] = "timeout"
                        /\ tickers[e] = Accumulated(e)

\* C7 witness: three batches of which the second failed; the result holds
\* the tickers of the first and the third.
C7_Witness ==
    \E e \in Exchanges :
        /\ Returned(e)
        /\ Len(calls[e]) = 3
        /\ calls[e][1].res = "ok" /\ calls[e][2].res = "error" /\ calls[e][3].res = "ok"
        /\ DOMAIN tickers[e] = {common_symbols[e][1], common_symbols[e][3]}

\* C8: a batch request rejected with TypeError is followed by exactly one
\* unfiltered call and by no other call of the exchange in the tick.
C8_SingleFallbackThenStop ==
    \A e \in Exchanges :
        \A n \in BatchCalls(e, "type_error") :
            /\ Len(calls[e]) <= n + 1
            /\ Len(calls[e]) = n + 1 => calls[e][n + 1].kind = "all"
            /\ IF Len(calls[e]) = n THEN fetch_pc[e] = "fallback" ELSE Returned(e)

\* C8 witness: in one tick the full fetch of one exchange succeeded and that
\* of another failed, and both tasks have returned.
C8_Witness ==
    \E e1, e2 \in Exchanges :
        /\ Returned(e1) /\ Returned(e2)
        /\ BatchCalls(e1, "type_error") # {} /\ BatchCalls(e2, "type_error") # {}
        /\ calls[e1][Len(calls[e1])] = Call("all", idx[e1], calls[e1][Len(calls[e1])].at, "ok")
        /\ calls[e2][Len(calls[e2])].kind = "all"
        /\ calls[e2][Len(calls[e2])].res = "error"

\* C9: whatever the capability calls of the load and fetch tasks raise, no
\* task raises, load_exchanges and get_all_tickers do not raise, and every
\* collected result entry is what the exchange's own task produced.
C9_FailuresAreIsolated ==
    /\ phase # "crashed"
    /\ \A e \in Exchanges : load_pc[e] # "raised" /\ fetch_pc[e] # "raised"
    /\ \A e \in Exchanges :
          (load_pc[e] = "collected" /\ load_ok[e])
              => e \in Loaded /\ exchange_objects[e] = load_result[e][1]
    /\ \A e \in Loaded :
          fetch_pc[e] = "collected"
              => IF tickers[e] # EmptyMap
                 THEN e \in DOMAIN all_tickers /\ all_tickers[e] = tickers[e]
                 ELSE e \notin DOMAIN all_tickers

\* C9 witness: one exchange failed to load, the full fetch of a second one
\* failed after its batch was rejected, and the third one's entry holds all
\* the tickers of its common symbols.
C9_Witness ==
    \E e1, e2, e3 \in Exchanges :
        /\ phase = "detected"
        /\ load_pc[e1] = "collected" /\ ~load_ok[e1] /\ e1 \notin Loaded
        /\ e2 \in Loaded /\ exit[e2] = "fallback"
        /\ calls[e2][Len(calls[e2])].res = "error"
        /\ e2 \notin DOMAIN all_tickers
        /\ e3 \in DOMAIN all_tickers
        /\ all_tickers[e3] = FetchFiltered(e3, common_symbols[e3])

\* C10: the keys of the mapping load_exchanges builds are exactly the
\* exchanges whose load succeeded, in every order of completion, and no load
\* task raises.
C10_LoadedExactlySuccessful ==
    \A e \in Exchanges :
        /\ load_pc[e] # "raised"
        /\ e \in Loaded <=> (load_pc[e] = "collected" /\ load_ok[e])

\* C10 witness: load_exchanges has returned with one of three exchanges
\* missing, the one whose load failed.
C10_Witness ==
    /\ phase = "ready"
    /\ Loaded = {"binance", "kucoin"}
    /\ ~load_ok["kraken"]

-----------------------------------------------------------------------------
(* Properties of the alert deduplicator (SpecAlerts) *)

\* the string key of a key triple
KeyString(k) == k[1] \o ":" \o k[2] \o ":" \o k[3]

\* C1: between two resets, every OpportunityKey is included in the outgoing
\* batches of a subscriber at most once, whatever the prices of the
\* opportunities that carry it.
C1_AtMostOncePerReset ==
    \A u \in Users : \A k \in DOMAIN alerted[u] : alerted[u][k] <= 1

\* C1 witness: with no reset so far, a tick offers a subscriber only keys that
\* were already batched for it, one of them at a new price, and its batch is
\* empty.
C1_Witness ==
    \E u \in Users :
        /\ tick_pc = "loop"
        /\ user_id = <<u>>
        /\ new_opps_for_user = <<>>
        /\ opportunities # <<>>
        /\ \A n \in 1..Len(opportunities) : Count(u, KeyTriple(opportunities[n])) = 1
        /\ \E n \in 1..Len(opportunities) : opportunities[n].sell_price = 110

\* C2: a reset leaves every known subscriber with an empty delivered-key set,
\* and when a tick then visits a subscriber, every detected key that has not
\* been batched for it since the reset (a key delivered before the reset in
\* particular) is in its outgoing batch.
C2_ResetAllowsRedelivery ==
    [][ /\ clear_sent_opportunities =>
              /\ DOMAIN sent_opportunities' = DOMAIN sent_opportunities
              /\ \A u \in DOMAIN sent_opportunities' : sent_opportunities'[u] = {}
        /\ \A u \in Users :
              NextUser(u) =>
                 \A n \in 1..Len(opportunities) :
                    LET k == KeyTriple(opportunities[n]) IN
                    Count(u, k) = 0 => k \in KeysOf(new_opps_for_user') ]_vars

\* C2 witness: a subscriber is being sent a key that an earlier message, sent
\* before the last reset, already delivered to it.
C2_Witness ==
    \E u \in Users :
        /\ tick_pc = "send"
        /\ user_id = <<u>>
        /\ \E k \in KeysOf(new_opps_for_user) : k \in delivered[u] /\ Count(u, k) = 1

\* C3: once a tick has completed, every key in a subscriber's delivered set
\* was contained in a message whose send to that subscriber succeeded.
C3_SentImpliesDelivered ==
    tick_pc = "idle" =>
        \A u \in DOMAIN sent_opportunities :
            sent_opportunities[u] \subseteq {KeyString(k) : k \in delivered[u]}

-----------------------------------------------------------------------------
(* Properties of detection, reconciliation and the snapshot (Spec) *)

\* the snapshot has a ticker (a non-empty dict) for s on ex
HasTicker(ex, s) ==
    s \in DOMAIN all_tickers[ex] /\ DOMAIN all_tickers[ex][s] # {}

\* a price that is present and strictly positive
Positive(o) == o # <<>> /\ o[1] > 0

\* the symbols shared by two exchanges of the snapshot
Shared(a, b) == Range(common_symbols[a]) \cap Range(common_symbols[b])

\* the direction "buy s on buy_ex, sell it on sell_ex" meets the conditions
\* of an opportunity: both tickers, four positive prices, diff > threshold
Qualifies(buy_ex, sell_ex, s) ==
    /\ HasTicker(buy_ex, s) /\ HasTicker(sell_ex, s)
    /\ LET tb == all_tickers[buy_ex][s]
           ts == all_tickers[sell_ex][s]
       IN  /\ Positive(Get(tb, "bid")) /\ Positive(Get(tb, "ask"))
           /\ Positive(Get(ts, "bid")) /\ Positive(Get(ts, "ask"))
           /\ (ts.bid - tb.ask) * ThresholdDen > ThresholdNum * tb.ask

\* the positions of the output that carry a directional triple
Emitted(buy_ex, sell_ex, s) ==
    {n \in 1..Len(opportunities) :
        KeyTriple(opportunities[n]) = <<s, buy_ex, sell_ex>>}

\* C11: for every direction of every pair of snapshot exchanges and shared
\* symbol, an opportunity is emitted iff both tickers exist, the four prices
\* are present and strictly positive and diff is strictly above the
\* threshold; every emitted opportunity carries the buy side's ask and the
\* sell side's bid, both positive, and profit_pct = diff * 100.
C11_EmittedIffQualifies ==
    phase = "detected" =>
        /\ \A a, b \in DOMAIN all_tickers :
              a # b => \A s \in Shared(a, b) :
                          Emitted(a, b, s) # {} <=> Qualifies(a, b, s)
        /\ \A n \in 1..Len(opportunities) :
              LET opp == opportunities[n] IN
              /\ opp.buy_price > 0 /\ opp.sell_price > 0
              /\ opp.buy_price = all_tickers[opp.buy_exchange][opp.symbol].ask
              /\ opp.sell_price = all_tickers[opp.sell_exchange][opp.symbol].bid
              /\ opp.profit_pct.num * opp.buy_price
                    = (opp.sell_price - opp.buy_price) * 100 * opp.profit_pct.den

\* C11 witness: detection ran over a snapshot in which one direction has a
\* diff of exactly the threshold (buy at 200, sell at 201) and is not
\* emitted, and another one just above it (buy at 199, sell at 200) is.
C11_Witness ==
    /\ phase = "detected"
    /\ DOMAIN all_tickers = Exchanges
    /\ HasTicker("binance", "ETH/USDT") /\ HasTicker("kraken", "ETH/USDT")
    /\ all_tickers["binance"]["ETH/USDT"].ask = 200
    /\ all_tickers["kraken"]["ETH/USDT"].bid = 201
    /\ Emitted("binance", "kraken", "ETH/USDT") = {}
    /\ HasTicker("binance", "XRP/USDT") /\ HasTicker("kucoin", "XRP/USDT")
    /\ all_tickers["kucoin"]["XRP/USDT"].ask = 199
    /\ all_tickers["binance"]["XRP/USDT"].bid = 200
    /\ Emitted("kucoin", "binance", "XRP/USDT") # {}

\* the triples (ex1, ex2, symbol) the loops evaluate over the snapshot, in
\* evaluation order, when Python iterates its sets in the given order
Evaluated(order) ==
    PairLoops(all_tickers, ticker_order, common_symbols, order).evaluated

\* C12: within one tick every evaluated triple is a pair of two different
\* snapshot exchanges with a symbol they share, every such unordered pair
\* and symbol is evaluated exactly once, in whatever order the exchanges
\* entered the snapshot, and the output holds at most one opportunity for
\* each directional triple (symbol, buy exchange, sell exchange).
C12_EachPairSymbolOnce ==
    phase = "detected" =>
        /\ \A order \in SetOrders :
              LET ev == Evaluated(order) IN
              /\ \A n \in 1..Len(ev) :
                    /\ ev[n][1] # ev[n][2]
                    /\ {ev[n][1], ev[n][2]} \subseteq DOMAIN all_tickers
                    /\ ev[n][3] \in Shared(ev[n][1], ev[n][2])
              /\ \A a, b \in DOMAIN all_tickers :
                    a # b => \A s \in Shared(a, b) :
                        Cardinality({n \in 1..Len(ev) :
                                        /\ {ev[n][1], ev[n][2]} = {a, b}
                                        /\ ev[n][3] = s}) = 1
        /\ \A n, m \in 1..Len(opportunities) :
              KeyTriple(opportunities[n]) = KeyTriple(opportunities[m]) => n = m

\* C12 witness: the snapshot's exchanges arrived in descending order of their
\* names; the five pair-symbol combinations were evaluated and opportunities
\* found.
C12_Witness ==
    /\ phase = "detected"
    /\ ticker_order = <<"kucoin", "kraken", "binance">>
    /\ \A order \in SetOrders : Len(Evaluated(order)) = 5
    /\ Len(opportunities) >= 2

\* load_markets has returned
Reconciled == phase \in {"ready", "fetching", "detected"}

\* C13: once the reconciler has run, for every loaded exchange X a symbol is
\* in common_symbols[X] iff it is a spot symbol of X and a spot symbol of at
\* least one other loaded exchange.
C13_CommonIffSharedSpot ==
    Reconciled =>
        /\ DOMAIN common_symbols = Loaded
        /\ \A x \in Loaded : \A s \in Symbols :
              s \in Range(common_symbols[x])
                 <=> /\ s \in exchange_objects[x].spot_symbols
                     /\ \E y \in Loaded \ {x} : s \in exchange_objects[y].spot_symbols

\* C13 witness: two of three exchanges loaded; a spot symbol of one of them
\* that only the failed exchange shares is not common, one that the other
\* loaded exchange shares is.
C13_Witness ==
    /\ phase = "ready"
    /\ Loaded = {"binance", "kraken"}
    /\ "XRP/USDT" \in exchange_objects["binance"].spot_symbols
    /\ "XRP/USDT" \notin Range(common_symbols["binance"])
    /\ "ETH/USDT" \in Range(common_symbols["binance"])
    /\ "BNB/USDT" \notin Range(common_symbols["binance"])

\* C14: when fewer than two exchanges loaded, every exchange's common-symbol
\* list is empty and no tick emits an opportunity.
C14_FewerThanTwoNothingCommon ==
    (Reconciled /\ Cardinality(Loaded) < 2) =>
        /\ \A x \in DOMAIN common_symbols : common_symbols[x] = <<>>
        /\ opportunities = <<>>

\* C14 witness: load failures left one of three requested exchanges; a tick
\* fetched from it and detection ran.
C14_Witness ==
    /\ phase = "detected"
    /\ Loaded = {"kucoin"}
    /\ \A e \in Exchanges \ Loaded : load_pc[e] = "collected" /\ ~load_ok[e]
    /\ calls["kucoin"] # <<>>
    /\ calls["kucoin"][1].res = "ok"
    /\ opportunities = <<>>

\* C16: an exchange is a key of the snapshot iff its fetch task has been
\* collected with a non-empty ticker map; an exchange without bulk ticker
\* support makes no fetch call and is never a key; and the pair enumeration
\* runs over the keys of the snapshot only.
C16_SnapshotKeysAreNonEmptyResults ==
    /\ \A e \in Exchanges :
          e \in DOMAIN all_tickers
             <=> (e \in Loaded /\ fetch_pc[e] = "collected" /\ tickers[e] # EmptyMap)
    /\ Range(ticker_order) = DOMAIN all_tickers
    /\ \A e \in Loaded :
          ~exchange_objects[e].has_fetchTickers
             => calls[e] = <<>> /\ e \notin DOMAIN all_tickers
    /\ phase = "detected" =>
          /\ \A order \in SetOrders :
                LET ev == Evaluated(order) IN
                \A n \in 1..Len(ev) :
                    {ev[n][1], ev[n][2]} \subseteq DOMAIN all_tickers
          /\ \A n \in 1..Len(opportunities) :
                /\ opportunities[n].buy_exchange \in DOMAIN all_tickers
                /\ opportunities[n].sell_exchange \in DOMAIN all_tickers

\* C16 witness: of three loaded exchanges one has no bulk ticker support and
\* returned at once, one made calls that all failed and returned an empty
\* map, and the third is the only key of the snapshot detection ran over.
C16_Witness ==
    \E e1, e2, e3 \in Loaded :
        /\ phase = "detected"
        /\ exit[e1] = "unsupported" /\ calls[e1] = <<>>
        /\ exchange_objects[e2].has_fetchTickers
        /\ calls[e2] # <<>> /\ tickers[e2] = EmptyMap
        /\ DOMAIN all_tickers = {e3}

\* C17: every ticker stored in the snapshot for an exchange is a ticker of one
\* of that exchange's common symbols, on every fetch path.
C17_SnapshotWithinCommonSymbols ==
    \A x \in DOMAIN all_tickers :
        DOMAIN all_tickers[x] \subseteq Range(common_symbols[x])

\* the orders in which the fetch tasks of the snapshot's exchanges can
\* complete: the sequences that list every key of the snapshot once
CompletionOrders ==
    LET keys == DOMAIN all_tickers
    IN  {p \in [1..Cardinality(keys) -> keys] : Range(p) = keys}

\* C19: the per-exchange fetch results being what they are, the set of
\* opportunities detection returns is the one it would return for any other
\* completion order of the fetch tasks (and any iteration order of the symbol
\* sets); only the order of the output sequence depends on them.
C19_OpportunitySetIndependentOfOrder ==
    phase = "detected" =>
        \A p \in CompletionOrders : \A order \in SetOrders :
            Range(PairEnumeration(all_tickers, p, common_symbols, order))
                = Range(opportunities)

\* C19 witness: detection found opportunities over a snapshot of three
\* exchanges, and another completion order of the same fetch results gives
\* them in another sequence.
C19_Witness ==
    /\ phase = "detected"
    /\ Len(ticker_order) = 3
    /\ opportunities # <<>>
    /\ \E p \in CompletionOrders : \E order \in SetOrders :
          PairEnumeration(all_tickers, p, common_symbols, order) # opportunities

\* C20: every opportunity detection returns buys on one exchange and sells
\* on another, both are keys of the tick's snapshot, and its symbol is a
\* common symbol of both.
C20_OpportunityWellFormed ==
    phase = "detected" =>
        \A n \in 1..Len(opportunities) :
            LET opp == opportunities[n] IN
            /\ opp.buy_exchange # opp.sell_exchange
            /\ {opp.buy_exchange, opp.sell_exchange} \subseteq DOMAIN all_tickers
            /\ opp.symbol \in Range(common_symbols[opp.buy_exchange])
            /\ opp.symbol \in Range(common_symbols[opp.sell_exchange])

\* C20 witness: opportunities were found over a snapshot in which two
\* exchanges both returned, by their full fetch, a priced ticker of a symbol
\* that is common to neither.
C20_Witness ==
    /\ phase = "detected"
    /\ opportunities # <<>>
    /\ \E a, b \in DOMAIN all_tickers :
          /\ a # b
          /\ \E s \in (DOMAIN all_tickers[a]) \cap (DOMAIN all_tickers[b]) :
                /\ s \notin Range(common_symbols[a]) \cup Range(common_symbols[b])
                /\ all_tickers[a][s].bid > all_tickers[b][s].ask

-----------------------------------------------------------------------------
(* Properties of the alert loop (SpecAlerts) *)

\* the tick has detected an opportunity whose key is not yet recorded for u
HasNew(u) ==
    \E n \in 1..Len(opportunities) :
        opportunity_key(opportunities[n]) \notin
            (IF u \in DOMAIN sent_opportunities THEN sent_opportunities[u] ELSE {})

\* C15: within a tick, the visit of a subscriber starts a send iff the
\* subscriber has a new opportunity; a send that ends, returned or raised,
\* hands control back to the user loop with the subscribers still to visit
\* and the detected opportunities untouched; and the tick ends only when
\* every subscriber of its list has been visited.
C15_FailedSendDoesNotStopOthers ==
    [][ /\ \A u \in Users :
              NextUser(u) => (tick_pc' = "send" <=> HasNew(u))
        /\ (tick_pc = "send" /\ tick_pc' # "send")
              => /\ tick_pc' = "loop"
                 /\ todo' = todo
                 /\ opportunities' = opportunities
        /\ (tick_pc # "idle" /\ tick_pc' = "idle") => todo = {}
      ]_vars

\* C15 witness: the send to one subscriber raised and, in the same tick, the
\* send to another subscriber is under way.
C15_Witness ==
    /\ tick_pc = "send"
    /\ failed # {}
    /\ user_id[1] \notin failed
    /\ new_opps_for_user # <<>>

\* C18: a send is started only to a user who is subscribed at that moment: a
\* subscriber whose /stop has been processed is sent no alert afterwards,
\* also when the stop ran while the tick was suspended at another send.
C18_NoAlertAfterStop ==
    [][ \A u \in Users :
            (NextUser(u) /\ tick_pc' = "send") => u \in subscribed_users
      ]_vars

====
